---- MODULE Spec2Model ----
(***************************************************************************)
(* Model of pretty-express-reworked/src/generators/controller.generator.ts *)
(*                                                                         *)
(*   combineControllers      merges the router fragments of controllers    *)
(*   generateRouter          builds the router fragment of one controller  *)
(*   generateRequestHandler  wraps a controller method into a handler      *)
(*   generateSortedParams    orders the call arguments of that method      *)
(*                                                                         *)
(* A path is the sequence of its segments: "/" is <<>>, "/a/b" is          *)
(* <<"a", "b">>.  A router is the sequence of its layers, in registration  *)
(* order.  A value that may be undefined is a sequence of length 0 or 1.   *)
(***************************************************************************)
EXTENDS Integers, Sequences, FiniteSets, TLC

VARIABLES
    controller,      \* generateRouter: the controller passed in
    generated,       \* generateRouter: <<>> before the call, <<finalRouter>> after
    controllers,     \* combineControllers: the controllers passed in
    options,         \* combineControllers: <<>> (absent) or <<options object>>
    router,          \* combineControllers: the router under construction
    cpc,             \* combineControllers: position in the function body
    mounted,         \* combineControllers: number of controllers mounted so far
    log,             \* combineControllers: the console lines written
    request,         \* dispatch: <<>> or <<[method, path]>>
    frames,          \* dispatch: stack of routers/routes being walked
    layerError,      \* dispatch: <<>> or <<error>> travelling down the chain
    trace,           \* dispatch: the functions invoked for the request, in order
    outcome,         \* dispatch: "idle", "running", "responded", "unhandled"
    paramsIndex,     \* the ParamsIndex of the method: <<[key, value]>> in key order
    finalParams,     \* generateSortedParams: <<>> before the call, <<result>> after
    hpc,             \* generated handler: position in the function body
    controllerValue, \* generated handler: <<>> or <<value the method returned>>
    thrown,          \* generated handler: <<>> or <<error the method threw>>
    res,             \* generated handler: the responses written, [status, body]
    nextCalls,       \* generated handler: the arguments next was called with
    promise          \* "none", or the state of the returned pending computation

genVars == <<controller, generated>>
combineVars == <<controllers, options, router, cpc, mounted, log>>
dispatchVars == <<request, frames, layerError, trace, outcome>>
paramVars == <<paramsIndex, finalParams>>
handlerVars == <<hpc, controllerValue, thrown, res, nextCalls, promise>>
callVars == <<paramVars, handlerVars>>

-----------------------------------------------------------------------------
(* Bounds of the model *)

\* longest MethodMetadata list of a generated controller
MaxRoutes == 2
\* longest middlewares / errorMiddlewares list of a class or a method
MaxMiddlewares == 1
\* longest controllers list handed to combineControllers
MaxControllers == 2
\* most keys a ParamsIndex object holds
MaxKeys == 2
\* largest argument position a decorator binds, besides the reserved weights
MaxWeight == 2

-----------------------------------------------------------------------------
(* Helpers *)

Range(s) == {s[i] : i \in 1..Len(s)}

SeqsUpTo(S, n) == UNION {[1..k -> S] : k \in 0..n}

RECURSIVE Concat(_)
Concat(ss) == IF ss = <<>> THEN <<>> ELSE Head(ss) \o Concat(Tail(ss))

IsPrefix(p, q) == Len(p) <= Len(q) /\ SubSeq(q, 1, Len(p)) = p

-----------------------------------------------------------------------------
(* Metadata (the decorators' registry) and the collaborators' values *)

\* a middleware function: arity 4 is an error middleware
Fn(role, owner, route, i, arity) ==
    [role |-> role, owner |-> owner, route |-> route, i |-> i, arity |-> arity]

Validation(declared, owner, route) ==
    [declared |-> declared, schema |-> <<owner, route>>, options |-> "options"]

Middlewares(owner, route, n) ==
    [i \in 1..n |-> Fn(IF route = 0 THEN "classMiddleware" ELSE "methodMiddleware",
                       owner, route, i, 3)]

ErrorMiddlewares(owner, route, n) ==
    [i \in 1..n |-> Fn(IF route = 0 THEN "classErrorMiddleware"
                                    ELSE "methodErrorMiddleware",
                       owner, route, i, 4)]

\* the decorations a class or a method may carry: validation, n middlewares,
\* m error middlewares
Shapes ==
    {<<FALSE, 0, 0>>, <<TRUE, 0, 0>>}
    \cup {<<FALSE, n, 0>> : n \in 1..MaxMiddlewares}
    \cup {<<FALSE, 0, n>> : n \in 1..MaxMiddlewares}
    \cup {<<TRUE, n, n>> : n \in 1..MaxMiddlewares}

Endpoints == {<<"get", <<"x">>>>, <<"post", <<"x">>>>, <<"get", <<"y">>>>}

NoParams == <<>>

ClassData(owner, baseUrl, shape) ==
    [baseUrl |-> baseUrl,
     validation |-> Validation(shape[1], owner, 0),
     middlewares |-> Middlewares(owner, 0, shape[2]),
     errorMiddlewares |-> ErrorMiddlewares(owner, 0, shape[3])]

MethodData(owner, r, endpoint, shape) ==
    [methodName |-> r,
     method |-> endpoint[1],
     path |-> endpoint[2],
     validation |-> Validation(shape[1], owner, r),
     middlewares |-> Middlewares(owner, r, shape[2]),
     errorMiddlewares |-> ErrorMiddlewares(owner, r, shape[3]),
     paramsMetadata |-> NoParams]

Controller(owner, baseUrl, shape, routes) ==
    [name |-> owner,
     classData |-> ClassData(owner, baseUrl, shape),
     funcData |-> [r \in 1..Len(routes) |->
                      MethodData(owner, r, routes[r][1], routes[r][2])]]

getMethodMetadata(c) == c.funcData

getClassMetadata(c) == c.classData

generateValidationMiddleware(schema, opts) ==
    Fn("validation", schema[1], schema[2], 0, 3)

defaultValidationErrorHandler == Fn("defaultValidationErrorHandler", "", 0, 0, 4)

defaultHttpErrorMiddleware == Fn("defaultHttpErrorMiddleware", "", 0, 0, 4)

-----------------------------------------------------------------------------
(* express.Router: registration *)

Router == <<>>

\* router.use(fn1, ..., fnk): one layer per function, matching every path
Use(r, fns) ==
    r \o [i \in 1..Len(fns) |->
            [type |-> "use", path |-> <<>>, method |-> "", stack |-> <<fns[i]>>,
             sub |-> <<>>]]

\* router.use(path, subRouter): the sub-router, mounted under a path prefix
UseRouter(r, path, subRouter) ==
    Append(r, [type |-> "router", path |-> path, method |-> "", stack |-> <<>>,
               sub |-> subRouter])

\* router[verb](path, h1, ..., hk): one route layer holding the handlers;
\* array arguments are flattened by express
Route(r, verb, path, handlers) ==
    Append(r, [type |-> "route", path |-> path, method |-> verb,
               stack |-> handlers, sub |-> <<>>])

-----------------------------------------------------------------------------
(* generateRequestHandler, as a value registered on a route *)

RequestHandlerOf(c, item) == Fn("requestHandler", c.name, item.methodName, 0, 3)

-----------------------------------------------------------------------------
(* generateRouter *)

validMiddlewares(item) ==
    IF item.validation.declared
    THEN <<generateValidationMiddleware(item.validation.schema,
                                        item.validation.options)>>
    ELSE <<>>

\* mutant: the error middlewares registered ahead of the request handler
RouteChainErrorsFirst(c, item) ==
    validMiddlewares(item)
    \o Concat(<<item.middlewares>>)
    \o Concat(<<item.errorMiddlewares>>)
    \o <<RequestHandlerOf(c, item)>>

RouteChain(c, item) ==
    validMiddlewares(item)
    \o Concat(<<item.middlewares>>)
    \o <<RequestHandlerOf(c, item)>>
    \o Concat(<<item.errorMiddlewares>>)

\* mutant: an entry whose verb and path are already registered is dropped
RECURSIVE RegisterRoutesUnique(_, _, _)
RegisterRoutesUnique(r, c, funcData) ==
    IF funcData = <<>> THEN r
    ELSE IF \E k \in 1..Len(r) : /\ r[k].type = "route"
                                 /\ r[k].method = Head(funcData).method
                                 /\ r[k].path = Head(funcData).path
         THEN RegisterRoutesUnique(r, c, Tail(funcData))
         ELSE RegisterRoutesUnique(
                  Route(r, Head(funcData).method, Head(funcData).path,
                        RouteChain(c, Head(funcData))),
                  c, Tail(funcData))

RECURSIVE RegisterRoutes(_, _, _)
RegisterRoutes(r, c, funcData) ==
    IF funcData = <<>> THEN r
    ELSE LET item == Head(funcData)
         IN  RegisterRoutes(Route(r, item.method, item.path, RouteChain(c, item)),
                            c, Tail(funcData))

ClassValidationStage(r, classData) ==
    IF classData.validation.declared
    THEN Use(r, <<generateValidationMiddleware(classData.validation.schema,
                                               classData.validation.options)>>)
    ELSE r

ClassMiddlewareStage(r, classData) ==
    IF Len(classData.middlewares) /= 0 THEN Use(r, classData.middlewares) ELSE r

ClassErrorStage(r, classData) ==
    IF Len(classData.errorMiddlewares) /= 0
    THEN Use(r, classData.errorMiddlewares)
    ELSE r

InnerRouter(c) ==
    LET funcData == getMethodMetadata(c)
        classData == getClassMetadata(c)
        r1 == ClassValidationStage(Router, classData)
        r2 == ClassMiddlewareStage(r1, classData)
        r3 == RegisterRoutes(r2, c, funcData)
    IN  ClassErrorStage(r3, classData)

\* mutant: the inner router mounted without the class's base path
generateRouterUnprefixed(c) == UseRouter(Router, <<>>, InnerRouter(c))

generateRouter(c) ==
    LET finalRouter == Router
    IN  UseRouter(finalRouter, getClassMetadata(c).baseUrl, InnerRouter(c))

-----------------------------------------------------------------------------
(* Specification SpecGenerate: generateRouter applied to one controller *)

GenBaseUrls == {<<"a">>, <<>>}

\* the controllers declaring at most n routes
GenControllers(n) ==
    {Controller("C", b, s, routes) :
        b \in GenBaseUrls, s \in Shapes,
        routes \in SeqsUpTo(Endpoints \X Shapes, n)}

IdleCombine ==
    /\ controllers = <<>>
    /\ options = <<>>
    /\ router = Router
    /\ cpc = "idle"
    /\ mounted = 0
    /\ log = <<>>

IdleDispatch ==
    /\ request = <<>>
    /\ frames = <<>>
    /\ layerError = <<>>
    /\ trace = <<>>
    /\ outcome = "idle"

IdleHandler ==
    /\ hpc = "idle"
    /\ controllerValue = <<>>
    /\ thrown = <<>>
    /\ res = <<>>
    /\ nextCalls = <<>>
    /\ promise = "none"

IdleCall ==
    /\ paramsIndex = <<>>
    /\ finalParams = <<>>
    /\ IdleHandler

InitGenerate ==
    /\ controller \in GenControllers(MaxRoutes)
    /\ generated = <<>>
    /\ IdleCombine
    /\ IdleDispatch
    /\ IdleCall

GenerateRouter ==
    /\ generated = <<>>
    /\ generated' = <<generateRouter(controller)>>
    /\ UNCHANGED <<controller, combineVars, dispatchVars, callVars>>

vars == <<genVars, combineVars, dispatchVars, callVars>>

NextGenerate == GenerateRouter

SpecGenerate == InitGenerate /\ [][NextGenerate]_vars

-----------------------------------------------------------------------------
(* combineControllers *)

\* mutant: the fragment put in front of the layers already registered
UseFragmentFirst(r, fragment) ==
    UseRouter(<<>>, <<>>, fragment) \o r

\* router.use(generateRouter(item))
UseFragment(r, fragment) == UseRouter(r, <<>>, fragment)

\* !options || (options && !options.skipDefaultValidationErrorMiddleware)
InstallValidationDefault(opts) ==
    IF opts = <<>> THEN TRUE
    ELSE opts[1].skipDefaultValidationErrorMiddleware /= <<TRUE>>

\* mutant: the second if reads the first if's flag
InstallHttpDefaultWrongFlag(opts) ==
    IF opts = <<>> THEN TRUE
    ELSE opts[1].skipDefaultValidationErrorMiddleware /= <<TRUE>>

\* !options || (options && !options.skipDefaultHttpErrorMiddleware)
InstallHttpDefault(opts) ==
    IF opts = <<>> THEN TRUE
    ELSE opts[1].skipDefaultHttpErrorMiddleware /= <<TRUE>>

\* one iteration of controllers.forEach
MountController ==
    /\ cpc = "forEach"
    /\ mounted < Len(controllers)
    /\ router' = UseFragment(router, generateRouter(controllers[mounted + 1]))
    /\ mounted' = mounted + 1
    /\ UNCHANGED <<controllers, options, cpc, log, genVars, dispatchVars, callVars>>

\* the first if: the default validation-error handler
SetValidationDefault ==
    /\ cpc = "forEach"
    /\ mounted = Len(controllers)
    /\ IF InstallValidationDefault(options)
       THEN /\ log' = Append(log, "Setting default validation error middleware")
            /\ router' = Use(router, <<defaultValidationErrorHandler>>)
       ELSE UNCHANGED <<log, router>>
    /\ cpc' = "http"
    /\ UNCHANGED <<controllers, options, mounted, genVars, dispatchVars, callVars>>

\* the second if: the default HTTP-error handler
SetHttpDefault ==
    /\ cpc = "http"
    /\ IF InstallHttpDefault(options)
       THEN /\ log' = Append(log, "Setting default http error middleware")
            /\ router' = Use(router, <<defaultHttpErrorMiddleware>>)
       ELSE UNCHANGED <<log, router>>
    /\ cpc' = "return"
    /\ UNCHANGED <<controllers, options, mounted, genVars, dispatchVars, callVars>>

\* return router
Return ==
    /\ cpc = "return"
    /\ cpc' = "done"
    /\ UNCHANGED <<controllers, options, router, mounted, log, genVars, dispatchVars, callVars>>

-----------------------------------------------------------------------------
(* express.Router: dispatch of one request through the returned router *)

\* the router or route stack the frames f lead into, starting from container c
RECURSIVE ContainerAt(_, _)
ContainerAt(c, f) ==
    IF Len(f) <= 1 THEN c
    ELSE ContainerAt(IF c[f[1].i].type = "route" THEN c[f[1].i].stack
                                                 ELSE c[f[1].i].sub,
                     Tail(f))

RECURSIVE InRouteAt(_, _)
InRouteAt(c, f) ==
    IF Len(f) <= 1 THEN FALSE
    ELSE IF c[f[1].i].type = "route" THEN TRUE
    ELSE InRouteAt(c[f[1].i].sub, Tail(f))

Top == frames[Len(frames)]
Container == ContainerAt(router, frames)
InRoute == InRouteAt(router, frames)
AtItem == frames /= <<>> /\ Top.i <= Len(Container)
Item == Container[Top.i]

\* the function a use layer or a route's handler slot holds
ItemFn == IF InRoute THEN Item ELSE Item.stack[1]

\* express matches a use/mount path as a prefix and a route path exactly
Matches(layer, req, rest) ==
    CASE layer.type = "route" -> layer.path = rest /\ layer.method = req.method
      [] OTHER -> IsPrefix(layer.path, rest)

\* a function is called only when its arity fits: 4 with an error, 3 without;
\* routers and routes are arity-3 handlers
Callable ==
    IF ~AtItem THEN FALSE
    ELSE IF InRoute THEN (Item.arity = 4) = (layerError /= <<>>)
    ELSE IF Item.type = "use" /\ Matches(Item, request[1], Top.rest)
         THEN (Item.stack[1].arity = 4) = (layerError /= <<>>)
         ELSE FALSE

\* a mounted router or a route is walked when it matches and no error travels
Enterable(type) ==
    IF ~AtItem THEN FALSE
    ELSE IF InRoute THEN FALSE
    ELSE Item.type = type /\ layerError = <<>> /\ Matches(Item, request[1], Top.rest)

Advance == [frames EXCEPT ![Len(frames)].i = @ + 1]

ReceiveRequest ==
    /\ cpc = "done"
    /\ outcome = "idle"
    /\ \E m \in {"get", "post"}, p \in UNION {{c.classData.baseUrl \o t :
                  t \in {<<>>, <<"x">>, <<"y">>}} : c \in Range(controllers)} \cup {<<"x">>} :
          /\ request' = <<[method |-> m, path |-> p]>>
          /\ frames' = <<[i |-> 1, rest |-> p]>>
    /\ outcome' = "running"
    /\ UNCHANGED <<layerError, trace, combineVars, genVars, callVars>>

\* a layer that does not match, or whose arity does not fit, is passed over
SkipLayer ==
    /\ outcome = "running"
    /\ AtItem
    /\ ~Callable
    /\ ~Enterable("router")
    /\ ~Enterable("route")
    /\ frames' = Advance
    /\ UNCHANGED <<request, layerError, trace, outcome, combineVars, genVars, callVars>>

\* a mounted router that matches: walk it with the prefix stripped
EnterRouter ==
    /\ outcome = "running"
    /\ Enterable("router")
    /\ frames' = Append(frames, [i |-> 1,
                     rest |-> SubSeq(Top.rest, Len(Item.path) + 1, Len(Top.rest))])
    /\ UNCHANGED <<request, layerError, trace, outcome, combineVars, genVars, callVars>>

\* a route that matches path and verb: walk its handlers
EnterRoute ==
    /\ outcome = "running"
    /\ Enterable("route")
    /\ frames' = Append(frames, [i |-> 1, rest |-> Top.rest])
    /\ UNCHANGED <<request, layerError, trace, outcome, combineVars, genVars, callVars>>

\* the end of a router or route: back to the layer after it, or out of the
\* top router (express's final handler, outside this program)
ExitFrame ==
    /\ outcome = "running"
    /\ frames /= <<>>
    /\ ~AtItem
    /\ IF Len(frames) = 1
       THEN frames' = <<>> /\ outcome' = "unhandled"
       ELSE /\ frames' = [SubSeq(frames, 1, Len(frames) - 1)
                             EXCEPT ![Len(frames) - 1].i = @ + 1]
            /\ UNCHANGED outcome
    /\ UNCHANGED <<request, layerError, trace, combineVars, genVars, callVars>>

\* a middleware that calls next()
InvokeNext ==
    /\ outcome = "running"
    /\ Callable
    /\ ItemFn.role \in {"validation", "classMiddleware", "methodMiddleware"}
    /\ trace' = Append(trace, ItemFn)
    /\ frames' = Advance
    /\ UNCHANGED <<request, layerError, outcome, combineVars, genVars, callVars>>

\* a middleware or generated handler that calls next(err)
InvokeFail ==
    /\ outcome = "running"
    /\ Callable
    /\ ItemFn.arity = 3
    /\ trace' = Append(trace, ItemFn)
    /\ layerError' = <<[origin |-> ItemFn]>>
    /\ frames' = Advance
    /\ UNCHANGED <<request, outcome, combineVars, genVars, callVars>>

\* an error middleware that passes its error on with next(err)
InvokeForward ==
    /\ outcome = "running"
    /\ Callable
    /\ ItemFn.arity = 4
    /\ trace' = Append(trace, ItemFn)
    /\ frames' = Advance
    /\ UNCHANGED <<request, layerError, outcome, combineVars, genVars, callVars>>

\* a function that writes the response and calls nothing further
InvokeRespond ==
    /\ outcome = "running"
    /\ Callable
    /\ trace' = Append(trace, ItemFn)
    /\ frames' = <<>>
    /\ outcome' = "responded"
    /\ UNCHANGED <<request, layerError, combineVars, genVars, callVars>>

-----------------------------------------------------------------------------
(* Specification SpecRouter: combineControllers, then one request *)

FullShape == <<TRUE, MaxMiddlewares, MaxMiddlewares>>

Mounts == {<<"A", <<"a">>>>, <<"B", <<"b">>>>, <<"AB", <<"a", "b">>>>}

RouterControllers ==
    {Controller(m[1], m[2], FullShape, <<<<<<"get", <<"x">>>>, FullShape>>>>) :
        m \in Mounts}

Flags == {<<>>, <<TRUE>>, <<FALSE>>}

OptionObjects ==
    [skipDefaultHttpErrorMiddleware : Flags,
     skipDefaultValidationErrorMiddleware : Flags]

InitRouter ==
    /\ controllers \in {cs \in SeqsUpTo(RouterControllers, MaxControllers) :
                           \A i, j \in 1..Len(cs) : i /= j => cs[i] /= cs[j]}
    /\ options \in {<<>>} \cup {<<o>> : o \in OptionObjects}
    /\ router = Router
    /\ cpc = "forEach"
    /\ mounted = 0
    /\ log = <<>>
    /\ controller = <<>>
    /\ generated = <<>>
    /\ IdleDispatch
    /\ IdleCall

NextRouter ==
    \/ MountController
    \/ SetValidationDefault
    \/ SetHttpDefault
    \/ Return
    \/ ReceiveRequest
    \/ SkipLayer
    \/ EnterRouter
    \/ EnterRoute
    \/ ExitFrame
    \/ InvokeNext
    \/ InvokeFail
    \/ InvokeForward
    \/ InvokeRespond

SpecRouter == InitRouter /\ [][NextRouter]_vars

-----------------------------------------------------------------------------
(* generateSortedParams *)

\* the reserved weights of request, response and next
ReqWeight == 100
ResWeight == 101
NextWeight == 102

ParamKeys == {"bodyIndex", "paramsIndex", "queryIndex", "fileIndex", "filesIndex"}

\* mutant: a key bound to position 0 is taken for an unbound one
DefinedKeysTruthy(index) ==
    SelectSeq(index, LAMBDA e : e.value /= <<>> /\ e.value /= <<0>>)

\* Object.keys(paramsIndex).filter((item) => paramsIndex[item] !== undefined)
DefinedKeys(index) == SelectSeq(index, LAMBDA e : e.value /= <<>>)

\* the chain of ifs that picks the request facet of a key; null otherwise
FacetOf(req, key) ==
    CASE key = "bodyIndex" -> req.body
      [] key = "paramsIndex" -> req.params
      [] key = "queryIndex" -> req.query
      [] key = "fileIndex" -> req.file
      [] key = "filesIndex" -> req.files
      [] OTHER -> "null"

\* mutant: an element is placed ahead of the elements of equal weight
RECURSIVE InsertBeforeEqual(_, _)
InsertBeforeEqual(sorted, e) ==
    IF sorted = <<>> THEN <<e>>
    ELSE IF e.weight - Head(sorted).weight <= 0 THEN <<e>> \o sorted
    ELSE <<Head(sorted)>> \o InsertBeforeEqual(Tail(sorted), e)

\* Array.prototype.sort places an element after the elements it does not
\* compare below: (a, b) => a.weight - b.weight
RECURSIVE Insert(_, _)
Insert(sorted, e) ==
    IF sorted = <<>> THEN <<e>>
    ELSE IF e.weight - Head(sorted).weight < 0 THEN <<e>> \o sorted
    ELSE <<Head(sorted)>> \o Insert(Tail(sorted), e)

RECURSIVE SortByWeight(_)
SortByWeight(s) ==
    IF s = <<>> THEN <<>>
    ELSE Insert(SortByWeight(SubSeq(s, 1, Len(s) - 1)), s[Len(s)])

\* the list before sorting: the three reserved entries, then one entry per
\* defined key in key order
UnsortedParams(req, response, next, index) ==
    LET keys == DefinedKeys(index)
    IN  <<[value |-> req.self, weight |-> ReqWeight, key |-> <<>>],
          [value |-> response, weight |-> ResWeight, key |-> <<>>],
          [value |-> next, weight |-> NextWeight, key |-> <<>>]>>
        \o [i \in 1..Len(keys) |->
              [value |-> FacetOf(req, keys[i].key),
               weight |-> keys[i].value[1],
               key |-> <<keys[i].key>>]]

generateSortedParams(req, response, next, index) ==
    LET sortedParams == SortByWeight(UnsortedParams(req, response, next, index))
        finalParams_ == [i \in 1..Len(sortedParams) |-> sortedParams[i].value]
    IN  finalParams_

\* the request object and its facets
Req ==
    [self |-> "req", body |-> "req.body", params |-> "req.params",
     query |-> "req.query", file |-> "req.file", files |-> "req.files"]

-----------------------------------------------------------------------------
(* Specification SpecParams: generateSortedParams applied to one ParamsIndex *)

Weights == (0..MaxWeight) \cup {ReqWeight, ResWeight, NextWeight}

\* the objects of at most n keys, each key undefined or bound to a weight
ParamsIndexes(keys, weights, n) ==
    {index \in SeqsUpTo([key : keys,
                         value : {<<>>} \cup {<<w>> : w \in weights}], n) :
        \A i, j \in 1..Len(index) : i /= j => index[i].key /= index[j].key}

InitParams ==
    /\ paramsIndex \in ParamsIndexes(ParamKeys, Weights, MaxKeys)
    /\ finalParams = <<>>
    /\ IdleHandler
    /\ controller = <<>>
    /\ generated = <<>>
    /\ IdleCombine
    /\ IdleDispatch

GenerateSortedParams ==
    /\ finalParams = <<>>
    /\ finalParams' = <<generateSortedParams(Req, "res", "next", paramsIndex)>>
    /\ UNCHANGED <<paramsIndex, handlerVars, genVars, combineVars, dispatchVars>>

NextParams == GenerateSortedParams

SpecParams == InitParams /\ [][NextParams]_vars

-----------------------------------------------------------------------------
(* generateRequestHandler *)

DefaultStatus == 200

\* a value a controller method may return
Value(class, status, json) == [class |-> class, status |-> status, json |-> json]

\* mutant: anything carrying a status is taken for an HttpResponse
LooksLikeHttpResponse(v) == v.status /= <<>>

\* controllerValue instanceof HttpResponse
InstanceOfHttpResponse(v) == v.class = "HttpResponse"

\* the response written for a returned value: res.status(..).json(..)
ResponseFor(v) ==
    IF InstanceOfHttpResponse(v)
    THEN [status |-> v.status[1], body |-> Value("Json", <<>>, v.json)]
    ELSE [status |-> DefaultStatus, body |-> v]

\* mutant: the error is swallowed
CatchSilently(calls, err) == calls

\* catch (err) { next(err) }
Catch(calls, err) == Append(calls, err)

\* mutant: the pending computation's rejection is handed to next
OnRejectionForwarded(calls, reason) == Append(calls, reason)

\* nothing is attached to a returned pending computation: its rejection
\* reaches nothing in this layer
OnRejection(calls, reason) == calls

\* the handler is entered: the try block opens and the arguments are sorted
HandleRequest ==
    /\ hpc = "idle"
    /\ finalParams' = <<generateSortedParams(Req, "res", "next", paramsIndex)>>
    /\ hpc' = "call"
    /\ UNCHANGED <<paramsIndex, controllerValue, thrown, res, nextCalls, promise,
                   genVars, combineVars, dispatchVars>>

Statuses == {200, 201, 404}

Payloads == {"{id:5}", "{ok:true}", "undefined"}

ReturnValues ==
    {Value("HttpResponse", <<st>>, j) : st \in Statuses, j \in Payloads}
    \cup {Value("Object", <<st>>, j) : st \in {201}, j \in Payloads}
    \cup {Value("Plain", <<>>, j) : j \in Payloads}

\* controllerFunction(...sortedParams) returns a value
ControllerReturns ==
    /\ hpc = "call"
    /\ \E v \in ReturnValues : controllerValue' = <<v>>
    /\ hpc' = "returned"
    /\ UNCHANGED <<paramVars, thrown, res, nextCalls, promise,
                   genVars, combineVars, dispatchVars>>

\* controllerFunction(...sortedParams) returns a pending computation
ControllerReturnsPending ==
    /\ hpc = "call"
    /\ controllerValue' = <<Value("Promise", <<>>, "pending")>>
    /\ promise' = "pending"
    /\ hpc' = "returned"
    /\ UNCHANGED <<paramVars, thrown, res, nextCalls,
                   genVars, combineVars, dispatchVars>>

\* controllerFunction(...sortedParams) throws: control passes to the catch
ControllerThrows ==
    /\ hpc = "call"
    /\ \E e \in {"Error(boom)", "Error(other)"} : thrown' = <<e>>
    /\ hpc' = "catch"
    /\ UNCHANGED <<paramVars, controllerValue, res, nextCalls, promise,
                   genVars, combineVars, dispatchVars>>

\* the if/else on the returned value
Respond ==
    /\ hpc = "returned"
    /\ res' = Append(res, ResponseFor(controllerValue[1]))
    /\ hpc' = "done"
    /\ UNCHANGED <<paramVars, controllerValue, thrown, nextCalls, promise,
                   genVars, combineVars, dispatchVars>>

\* the catch block
CatchError ==
    /\ hpc = "catch"
    /\ nextCalls' = Catch(nextCalls, thrown[1])
    /\ hpc' = "done"
    /\ UNCHANGED <<paramVars, controllerValue, thrown, res, promise,
                   genVars, combineVars, dispatchVars>>

\* the pending computation rejects, after the handler has returned
PromiseRejects ==
    /\ hpc = "done"
    /\ promise = "pending"
    /\ promise' = "rejected"
    /\ nextCalls' = OnRejection(nextCalls, "rejection")
    /\ UNCHANGED <<paramVars, hpc, controllerValue, thrown, res,
                   genVars, combineVars, dispatchVars>>

\* the pending computation resolves, after the handler has returned
PromiseResolves ==
    /\ hpc = "done"
    /\ promise = "pending"
    /\ promise' = "resolved"
    /\ UNCHANGED <<paramVars, hpc, controllerValue, thrown, res, nextCalls,
                   genVars, combineVars, dispatchVars>>

-----------------------------------------------------------------------------
(* Specification SpecHandler: one invocation of a generated handler *)

HandlerParamsIndexes ==
    ParamsIndexes({"bodyIndex", "paramsIndex"}, {0, 1}, MaxKeys)

InitHandler ==
    /\ paramsIndex \in HandlerParamsIndexes
    /\ finalParams = <<>>
    /\ IdleHandler
    /\ controller = <<>>
    /\ generated = <<>>
    /\ IdleCombine
    /\ IdleDispatch

NextHandler ==
    \/ HandleRequest
    \/ ControllerReturns
    \/ ControllerReturnsPending
    \/ ControllerThrows
    \/ Respond
    \/ CatchError
    \/ PromiseRejects
    \/ PromiseResolves

SpecHandler == InitHandler /\ [][NextHandler]_vars

-----------------------------------------------------------------------------
(* Properties of generateRouter, under SpecGenerate *)

InnerOf(g) == g[1][1].sub

RoutesOf(r) == SelectSeq(r, LAMBDA l : l.type = "route")

FnsOf(r, role) ==
    LET ls == SelectSeq(r, LAMBDA l : l.type = "use" /\ l.stack[1].role = role)
    IN  [i \in 1..Len(ls) |-> ls[i].stack[1]]

SlotsOf(stack, role) == SelectSeq(stack, LAMBDA f : f.role = role)

NonDecreasing(ranks) ==
    \A i, j \in 1..Len(ranks) : i < j => ranks[i] <= ranks[j]

LayerRank(l) ==
    CASE l.type = "route" -> 3
      [] l.type = "use" /\ l.stack[1].role = "validation" -> 1
      [] l.type = "use" /\ l.stack[1].role = "classMiddleware" -> 2
      [] l.type = "use" /\ l.stack[1].role = "classErrorMiddleware" -> 4
      [] OTHER -> 0

SlotRank(f) ==
    CASE f.role = "validation" -> 1
      [] f.role = "methodMiddleware" -> 2
      [] f.role = "requestHandler" -> 3
      [] f.role = "methodErrorMiddleware" -> 4
      [] OTHER -> 0

\* C3: generateRouter registers exactly one route per MethodMetadata entry, in
\* metadata order, on the verb and path of the entry and holding the handler
\* generated for the entry's method; the outer router holds no route.
C3_OneRoutePerEntry ==
    generated /= <<>> =>
        LET routes == RoutesOf(InnerOf(generated))
            fd == controller.funcData
        IN  /\ Len(routes) = Len(fd)
            /\ RoutesOf(generated[1]) = <<>>
            /\ Len(generated[1]) = 1
            /\ \A i \in 1..Len(routes) :
                  /\ routes[i].method = fd[i].method
                  /\ routes[i].path = fd[i].path
                  /\ SlotsOf(routes[i].stack, "requestHandler")
                        = <<RequestHandlerOf(controller, fd[i])>>

\* two entries declaring the same verb and path are both registered
C3_Witness ==
    /\ generated /= <<>>
    /\ Len(controller.funcData) = MaxRoutes
    /\ controller.funcData[1].method = controller.funcData[2].method
    /\ controller.funcData[1].path = controller.funcData[2].path
    /\ Len(RoutesOf(InnerOf(generated))) = MaxRoutes

\* C4: the inner router holds, in this order, the class validation middleware
\* (iff declared), the class middlewares, the routes, the class error
\* middlewares; each route holds its validation middleware (iff declared), its
\* middlewares, the generated handler, its error middlewares.
C4_StageOrder ==
    generated /= <<>> =>
        LET inner == InnerOf(generated)
            cd == controller.classData
            fd == controller.funcData
            routes == RoutesOf(inner)
        IN  /\ \A i \in 1..Len(inner) : LayerRank(inner[i]) > 0
            /\ NonDecreasing([i \in 1..Len(inner) |-> LayerRank(inner[i])])
            /\ Len(FnsOf(inner, "validation")) = (IF cd.validation.declared THEN 1 ELSE 0)
            /\ FnsOf(inner, "classMiddleware") = cd.middlewares
            /\ FnsOf(inner, "classErrorMiddleware") = cd.errorMiddlewares
            /\ Len(routes) = Len(fd)
            /\ \A r \in 1..Len(routes) :
                  LET stack == routes[r].stack
                  IN  /\ \A k \in 1..Len(stack) : SlotRank(stack[k]) > 0
                      /\ NonDecreasing([k \in 1..Len(stack) |-> SlotRank(stack[k])])
                      /\ Len(SlotsOf(stack, "validation"))
                            = (IF fd[r].validation.declared THEN 1 ELSE 0)
                      /\ SlotsOf(stack, "methodMiddleware") = fd[r].middlewares
                      /\ Len(SlotsOf(stack, "requestHandler")) = 1
                      /\ SlotsOf(stack, "methodErrorMiddleware") = fd[r].errorMiddlewares

\* a controller carrying every stage, at class level and on its last route
C4_Witness ==
    /\ generated /= <<>>
    /\ controller.classData.validation.declared
    /\ Len(controller.classData.middlewares) = MaxMiddlewares
    /\ Len(controller.classData.errorMiddlewares) = MaxMiddlewares
    /\ Len(controller.funcData) = MaxRoutes
    /\ controller.funcData[MaxRoutes].validation.declared
    /\ Len(controller.funcData[MaxRoutes].middlewares) = MaxMiddlewares
    /\ Len(controller.funcData[MaxRoutes].errorMiddlewares) = MaxMiddlewares
    /\ Len(InnerOf(generated)) = 1 + MaxMiddlewares + MaxRoutes + MaxMiddlewares

-----------------------------------------------------------------------------
(* Properties of combineControllers, under SpecRouter *)

CountLayers(r, fn) ==
    Cardinality({i \in 1..Len(r) : r[i].type = "use" /\ r[i].stack = <<fn>>})

Skips(flag) == IF options = <<>> THEN FALSE ELSE options[1][flag] = <<TRUE>>

\* C1: the returned router holds the default validation-error handler iff
\* skipDefaultValidationErrorMiddleware is not true, and the default HTTP-error
\* handler iff skipDefaultHttpErrorMiddleware is not true, each at most once.
C1_DefaultsFollowFlags ==
    cpc = "done" =>
        /\ CountLayers(router, defaultValidationErrorHandler)
              = (IF Skips("skipDefaultValidationErrorMiddleware") THEN 0 ELSE 1)
        /\ CountLayers(router, defaultHttpErrorMiddleware)
              = (IF Skips("skipDefaultHttpErrorMiddleware") THEN 0 ELSE 1)

\* combineControllers([A, B], {skipDefaultHttpErrorMiddleware: true})
C1_Witness ==
    /\ cpc = "done"
    /\ Len(controllers) = 2
    /\ options = <<[skipDefaultHttpErrorMiddleware |-> <<TRUE>>,
                    skipDefaultValidationErrorMiddleware |-> <<>>]>>
    /\ CountLayers(router, defaultValidationErrorHandler) = 1
    /\ CountLayers(router, defaultHttpErrorMiddleware) = 0

IsDefault(f) == f.role \in {"defaultValidationErrorHandler", "defaultHttpErrorMiddleware"}

ControllerNamed(n) == CHOOSE c \in Range(controllers) : c.name = n

Position(s, x) == CHOOSE i \in 1..Len(s) : s[i] = x

\* C2: in the returned router the fragments come first, in input order, then
\* the validation default, then the HTTP default; and whenever a default
\* handler runs on an error forwarded by a route's generated handler, the
\* route's error middlewares and then its controller's class error
\* middlewares have run between the handler and the default.
C2_DefaultsAreLast ==
    /\ cpc = "done" =>
          /\ Len(router) >= Len(controllers)
          /\ \A i \in 1..Len(controllers) :
                /\ router[i].type = "router"
                /\ router[i].sub = generateRouter(controllers[i])
          /\ \A i \in (Len(controllers) + 1)..Len(router) :
                router[i].type = "use" /\ IsDefault(router[i].stack[1])
          /\ \A i, j \in 1..Len(router) :
                (/\ router[i].type = "use"
                 /\ router[j].type = "use"
                 /\ router[i].stack[1] = defaultValidationErrorHandler
                 /\ router[j].stack[1] = defaultHttpErrorMiddleware) => i < j
    /\ \A k \in 1..Len(trace) :
          (IF IsDefault(trace[k]) /\ layerError /= <<>>
           THEN layerError[1].origin.role = "requestHandler"
           ELSE FALSE) =>
              LET h == layerError[1].origin
                  c == ControllerNamed(h.owner)
                  expected == c.funcData[h.route].errorMiddlewares
                              \o c.classData.errorMiddlewares
                  at == Position(trace, h)
              IN  /\ at + Len(expected) < k
                  /\ SubSeq(trace, at + 1, at + Len(expected)) = expected

\* a handler's error went through the route's and the class's error
\* middlewares and reached both defaults
C2_Witness ==
    /\ Len(controllers) = 2
    /\ Len(trace) >= 5
    /\ layerError /= <<>>
    /\ layerError[1].origin.role = "requestHandler"
    /\ layerError[1].origin.owner = controllers[1].name
    /\ trace[Len(trace)] = defaultHttpErrorMiddleware
    /\ trace[Len(trace) - 1] = defaultValidationErrorHandler
    /\ trace[Len(trace) - 2].role = "classErrorMiddleware"
    /\ \E k \in 1..Len(trace) : trace[k].role = "methodErrorMiddleware"

Under(c) == IsPrefix(c.classData.baseUrl, request[1].path)

Nested(c1, c2) ==
    \/ IsPrefix(c1.classData.baseUrl, c2.classData.baseUrl)
    \/ IsPrefix(c2.classData.baseUrl, c1.classData.baseUrl)

RanFor(c) == \E k \in 1..Len(trace) : trace[k].owner = c.name

-----------------------------------------------------------------------------
(* Properties of generateSortedParams, under SpecParams *)

Reserved == {<<100, "req">>, <<101, "res">>, <<102, "next">>}

FacetName(key) ==
    CASE key = "bodyIndex" -> "req.body"
      [] key = "paramsIndex" -> "req.params"
      [] key = "queryIndex" -> "req.query"
      [] key = "fileIndex" -> "req.file"
      [] key = "filesIndex" -> "req.files"

BoundAt == {i \in 1..Len(paramsIndex) : paramsIndex[i].value /= <<>>}

\* the <<weight, value>> pairs of the bound keys
BoundPairs == {<<paramsIndex[i].value[1], FacetName(paramsIndex[i].key)>> : i \in BoundAt}

DistinctWeights ==
    /\ \A i, j \in BoundAt : i /= j => paramsIndex[i].value /= paramsIndex[j].value
    /\ \A i \in BoundAt : paramsIndex[i].value[1] \notin {100, 101, 102}

\* C5: when the weights of the k bound keys are pairwise distinct and none is
\* 100, 101 or 102, the method is called with exactly 3 + k arguments: request
\* (100), response (101), next (102) and the facet of each bound key, in
\* ascending order of weight; an unbound key adds no argument.
C5_ArgumentsAscending ==
    (finalParams /= <<>> /\ DistinctWeights) =>
        LET args == finalParams[1]
            all == Reserved \cup BoundPairs
        IN  /\ Len(args) = 3 + Cardinality(BoundAt)
            /\ \A e \in all :
                  args[1 + Cardinality({d \in all : d[1] < e[1]})] = e[2]

\* query bound to position 1 ahead of body bound to position 0
C5_Witness ==
    /\ paramsIndex = <<[key |-> "queryIndex", value |-> <<1>>],
                       [key |-> "bodyIndex", value |-> <<0>>]>>
    /\ finalParams = <<<<"req.body", "req.query", "req", "res", "next">>>>

\* the entries in insertion order: the reserved three, then the bound keys in
\* the order Object.keys lists them
Inserted ==
    <<<<100, "req">>, <<101, "res">>, <<102, "next">>>>
    \o [n \in 1..Cardinality(BoundAt) |->
          LET i == CHOOSE i \in BoundAt : Cardinality({j \in BoundAt : j < i}) = n - 1
          IN  <<paramsIndex[i].value[1], FacetName(paramsIndex[i].key)>>]

\* C9: of two entries of equal weight the one inserted first comes first in the
\* argument list: a reserved entry precedes a bound value of its weight, and
\* bound keys of one weight keep their key order.
C9_TiesKeepInsertionOrder ==
    finalParams /= <<>> =>
        LET args == finalParams[1]
        IN  /\ Len(args) = Len(Inserted)
            /\ \A i \in 1..Len(Inserted) : \E k \in 1..Len(args) : args[k] = Inserted[i][2]
            /\ \A i, j \in 1..Len(Inserted) :
                  (i < j /\ Inserted[i][1] = Inserted[j][1]) =>
                      Position(args, Inserted[i][2]) < Position(args, Inserted[j][2])

\* query and body both bound to the request's weight, query listed first
C9_Witness ==
    /\ paramsIndex = <<[key |-> "queryIndex", value |-> <<100>>],
                       [key |-> "bodyIndex", value |-> <<100>>]>>
    /\ finalParams = <<<<"req", "req.query", "req.body", "res", "next">>>>

-----------------------------------------------------------------------------
(* Properties of generateRequestHandler, under SpecHandler *)

C7_ThrowForwarded ==
    thrown /= <<>> =>
        /\ hpc \in {"catch", "done"}
        /\ res = <<>>
        /\ controllerValue = <<>>
        /\ nextCalls = (IF hpc = "done" THEN thrown ELSE <<>>)

\* Error("boom") thrown and handed to next
C7_Witness ==
    /\ hpc = "done"
    /\ thrown = <<"Error(boom)">>
    /\ nextCalls = <<"Error(boom)">>
    /\ res = <<>>

\* C10: a returned pending computation is answered at once with status 200 and
\* the computation itself as body; it settles only after that, and its
\* rejection neither calls next nor changes the response.
C10_PendingNotAwaited ==
    promise /= "none" =>
        /\ promise \in {"rejected", "resolved"} => hpc = "done"
        /\ hpc = "done" =>
              /\ res = <<[status |-> 200, body |-> controllerValue[1]]>>
              /\ controllerValue[1].class = "Promise"
        /\ nextCalls = <<>>

\* the computation rejected after the 200 response was written
C10_Witness ==
    /\ promise = "rejected"
    /\ hpc = "done"
    /\ Len(res) = 1
    /\ res[1].status = 200
    /\ nextCalls = <<>>

====
